---------------------------- MODULE Spec2Model ----------------------------
(***************************************************************************)
(* capture_dashboard_screenshots (src/capture_dashboard.py) as a state     *)
(* machine.  The procedure is sequential; every call into the browser      *)
(* library either returns or raises, and which of the two happens is the   *)
(* environment's choice.  The console listener registered on the page runs *)
(* while the procedure is blocked inside a browser call.                   *)
(***************************************************************************)
EXTENDS Integers, Sequences, FiniteSets, TLC

VARIABLES
    pc,                \* the statement the procedure executes next
    view,              \* position of view_name in views (0 before the loop)
    sel,               \* position of selector in selectors (0 before the inner loop)
    clicked,           \* the local clicked
    console_messages,  \* the list the console listener appends to
    ui_analysis,       \* the dict ui_analysis (a function from its keys)
    exc,               \* exception in flight, newest first, then its __context__ chain
    stdout,            \* the lines printed so far
    shots,             \* the paths of the page.screenshot calls so far, in order
    written,           \* screenshot paths whose call returned
    jsonOpens,         \* number of times ui_analysis.json was opened for writing
    jsonFile,          \* content of ui_analysis.json: <<>> absent, else <<content>>
    gotoCalls,         \* number of page.goto calls
    closeCalls,        \* number of browser.close calls
    opAfterClose,      \* a page operation was issued after browser.close
    viewAttempts,      \* positions of the views whose iteration was entered, in order
    clicksOK,          \* number of element.click calls that returned, over the run
    visibleSel,        \* this view: selectors whose first match is_visible() returned True
    clickCalls,        \* this view: selectors whose element.click() was called, in order
    clickedSel,        \* this view: selectors whose element.click() returned, in order
    triedAfterClick,   \* this view: a selector was tried after a click had returned
    selRaised,         \* this view: is_visible() or click() raised for some selector
    viewWaitOK,        \* this view: the post-click wait returned
    evaluated,         \* what the page.evaluate calls returned, in order
    outerCaught        \* steps whose exception reached the outer handler, in order

vars == <<pc, view, sel, clicked, console_messages, ui_analysis, exc, stdout,
          shots, written, jsonOpens, jsonFile, gotoCalls, closeCalls,
          opAfterClose, viewAttempts, clicksOK, visibleSel,
          clickCalls, clickedSel, triedAfterClick, selRaised, viewWaitOK,
          evaluated, outerCaught>>

-----------------------------------------------------------------------------
(* Bounds of the model *)

\* longest console_messages list explored
MaxMsgs == 2
\* largest number of unique colours the colour query returns
MaxColors == 21

(* Program constants *)

\* colors[:20]
ColorLimit == 20
\* views.index(view_name) + 2
PrefixOffset == 2

-----------------------------------------------------------------------------
(* Strings are sequences of characters, so that formatting is computed. *)

UpperChars == <<"A","B","C","D","E","F","G","H","I","J","K","L","M",
                "N","O","P","Q","R","S","T","U","V","W","X","Y","Z">>
LowerChars == <<"a","b","c","d","e","f","g","h","i","j","k","l","m",
                "n","o","p","q","r","s","t","u","v","w","x","y","z">>
Digits == <<"0","1","2","3","4","5","6","7","8","9">>

\* str.lower(), one character
LowerChar(c) ==
    IF \E i \in 1..Len(UpperChars) : UpperChars[i] = c
    THEN LowerChars[CHOOSE i \in 1..Len(UpperChars) : UpperChars[i] = c]
    ELSE c

\* str.lower()
Lower(s) == [i \in 1..Len(s) |-> LowerChar(s[i])]

\* str.replace(old, new) for single characters
Replace(s, old, new) == [i \in 1..Len(s) |-> IF s[i] = old THEN new ELSE s[i]]

\* decimal digits of n >= 0, most significant first
RECURSIVE Decimal(_)
Decimal(n) == IF n < 10 THEN <<Digits[n + 1]>>
              ELSE Decimal(n \div 10) \o <<Digits[(n % 10) + 1]>>

\* format(n, "02d") for n >= 0
Format02d(n) == IF n < 10 THEN <<"0">> \o Decimal(n) ELSE Decimal(n)

\* list.index(x): the first position holding x, counted from 0
Index(s, x) ==
    (CHOOSE i \in 1..Len(s) : s[i] = x /\ \A j \in 1..(i-1) : s[j] # x) - 1

\* s[:n]
Take(s, n) == SubSeq(s, 1, IF Len(s) < n THEN Len(s) ELSE n)

-----------------------------------------------------------------------------
(* The fixed data of the script *)

ScreenshotDir == <<"C:\\Users\\Maria\\ipcha-mistabra-intel\\screenshots\\">>

views == << <<"S","W","A","R","M">>,
            <<"M","L"," ","C","O","R","T","E","X">>,
            <<"B","A","C","K","T","E","S","T">>,
            <<"J","O","U","R","N","A","L">> >>

\* the selector strategies of one view, in the order tried
selectors(view_name) ==
    << <<"button:has-text('", view_name, "')">>,
       <<"[role='tab']:has-text('", view_name, "')">>,
       <<"text=", view_name>>,
       <<"button >> text=", view_name>>,
       <<"div:has-text('", view_name, "')">> >>

MainPath == ScreenshotDir \o <<"0","1","_","t","e","r","m","i","n","a","l","_","v","i","e","w",".","p","n","g">>

ErrorPath == ScreenshotDir \o <<"e","r","r","o","r","_","s","c","r","e","e","n","s","h","o","t",".","p","n","g">>

\* FilenamePrefix numbering the views from 1, as the main screenshot is
FilenamePrefixFromOne(view_name) == Format02d(Index(views, view_name) + 1)

\* the numeric prefix of a view's screenshot
FilenamePrefix(view_name) == Format02d(Index(views, view_name) + PrefixOffset)

\* filename of a view's screenshot
Filename(view_name) ==
    ScreenshotDir \o FilenamePrefix(view_name) \o <<"_">>
        \o Replace(Lower(view_name), " ", "_")
        \o <<"_","v","i","e","w",".","p","n","g">>


-----------------------------------------------------------------------------
(* Values the browser hands back *)

\* the k-th console message the page emits
ConsoleMsg(k) == [type |-> IF k % 2 = 1 THEN "error" ELSE "log", text |-> Decimal(k)]

\* the listener's f"{msg.type}: {msg.text}"
FormatMsg(msg) == <<msg.type, ": ">> \o msg.text

\* the value of the body-style query
BodyStyles == [backgroundColor |-> "rgb(0, 0, 0)", color |-> "rgb(255, 255, 255)",
               fontFamily |-> "monospace", fontSize |-> "14px"]

\* the values the colour query may return: n unique colours
ColorResults == { [i \in 1..n |-> i] : n \in {ColorLimit, MaxColors} }

\* the value of the typography query
Typography == [fonts |-> <<"monospace">>, sizes |-> <<"H1: 24px">>]

\* JavaScript null, None in Python
Null == [null |-> TRUE]

\* the values the layout query may return: the styles of main, or null
LayoutResults == { [display |-> "flex", flexDirection |-> "row",
                    gridTemplateColumns |-> "none", padding |-> "0px",
                    gap |-> "normal"],
                   Null }

EmptyList == <<>>
EmptyDict == [dict |-> {}]

\* the dict literal of ui_analysis
InitialAnalysis ==
    [k \in {"url", "title", "viewport", "colors", "typography", "layout_info"} |->
        CASE k = "url" -> "http://localhost:3002/"
          [] k = "title" -> "dashboard"
          [] k = "viewport" -> [width |-> 1920, height |-> 1080]
          [] k = "colors" -> EmptyList
          [] k = "typography" -> EmptyList
          [] k = "layout_info" -> EmptyDict]

\* d[k] = v on a dict
SetKey(d, k, v) == [x \in DOMAIN d \cup {k} |-> IF x = k THEN v ELSE d[x]]

\* a printed line: its kind, the view it is about (0: none), and its text
Line(kind, v, text) == [kind |-> kind, view |-> v, text |-> text]

\* how often path was the target of page.screenshot
ShotCount(path) == Cardinality({i \in 1..Len(shots) : shots[i] = path})

-----------------------------------------------------------------------------
(* Control flow *)

\* the statements that call into the page
PageSteps == {"goto", "wait_initial", "shot_main", "enum_nav", "is_visible",
              "click", "view_wait", "view_shot", "ui_init", "eval_body",
              "eval_colors", "eval_typography", "eval_layout", "except_outer"}

\* Handler with browser.close() after the try statement instead of in a
\* finally block: an exception of the outer handler skips it
HandlerCloseAfterTry(step) ==
    CASE step \in {"is_visible", "click"} -> "for_selector"
      [] step \in {"view_wait", "view_shot"} -> "except_view"
      [] step \in {"eval_body", "eval_colors", "eval_typography", "eval_layout"}
             -> "except_style"
      [] step \in {"goto", "wait_initial", "shot_main", "enum_nav", "ui_init",
                   "json_write"} -> "except_outer"
      [] OTHER -> "done"

\* Handler without the try statement around one view's iteration
HandlerNoViewTry(step) ==
    CASE step \in {"is_visible", "click"} -> "for_selector"
      [] step \in {"eval_body", "eval_colors", "eval_typography", "eval_layout"}
             -> "except_style"
      [] step \in {"goto", "wait_initial", "shot_main", "enum_nav", "ui_init",
                   "json_write", "view_wait", "view_shot"} -> "except_outer"
      [] step = "except_outer" -> "finally"
      [] OTHER -> "done"

\* Handler without the try statement around the style introspection
HandlerNoStyleTry(step) ==
    CASE step \in {"is_visible", "click"} -> "for_selector"
      [] step \in {"view_wait", "view_shot"} -> "except_view"
      [] step \in {"goto", "wait_initial", "shot_main", "enum_nav", "ui_init",
                   "json_write", "eval_body", "eval_colors", "eval_typography",
                   "eval_layout"} -> "except_outer"
      [] step = "except_outer" -> "finally"
      [] OTHER -> "done"

\* Handler with page.goto in a try statement of its own that goes on
HandlerGotoIgnored(step) ==
    CASE step \in {"is_visible", "click"} -> "for_selector"
      [] step \in {"view_wait", "view_shot"} -> "except_view"
      [] step \in {"eval_body", "eval_colors", "eval_typography", "eval_layout"}
             -> "except_style"
      [] step = "goto" -> "wait_initial"
      [] step \in {"wait_initial", "shot_main", "enum_nav", "ui_init",
                   "json_write"} -> "except_outer"
      [] step = "except_outer" -> "finally"
      [] OTHER -> "done"

\* where an exception raised by a statement is handled: the innermost
\* enclosing except clause, else the finally block, else the caller
Handler(step) ==
    CASE step \in {"is_visible", "click"} -> "for_selector"
      [] step \in {"view_wait", "view_shot"} -> "except_view"
      [] step \in {"eval_body", "eval_colors", "eval_typography", "eval_layout"}
             -> "except_style"
      [] step \in {"goto", "wait_initial", "shot_main", "enum_nav", "ui_init",
                   "json_write"} -> "except_outer"
      [] step = "except_outer" -> "finally"
      [] OTHER -> "done"

\* AfterClick without the break
AfterClickNoBreak(returned) == "for_selector"

\* the statement after element.click() returned (break) or raised (continue)
AfterClick(returned) == IF returned THEN "if_clicked" ELSE Handler("click")

\* IfClicked with the screenshot outside the if
IfClickedIgnored(c) == "view_wait"

\* the statement after "if clicked:"
IfClicked(c) == IF c THEN "view_wait" ELSE "for_view"

\* ForSelectorNext going one selector past the list
ForSelectorNextOffByOne(s, n) == IF s <= n THEN "is_visible" ELSE "if_clicked"

\* the "for selector in selectors" header: the next selector, or the loop's end
ForSelectorNext(s, n) == IF s < n THEN "is_visible" ELSE "if_clicked"

\* the "for view_name in views" header: the next view, or the loop's end
ForViewNext(v) == IF v < Len(views) THEN "for_selector" ELSE "ui_init"

\* the bookkeeping of a call into the page
PageOp == opAfterClose' = (opAfterClose \/ closeCalls > 0)

\* the statement raises
Raise == /\ pc' = Handler(pc)
         /\ exc' = <<pc>> \o exc

Init ==
    /\ pc = "goto"
    /\ view = 0
    /\ sel = 0
    /\ clicked = FALSE
    /\ console_messages = <<>>
    /\ ui_analysis = <<>>
    /\ exc = <<>>
    /\ stdout = <<>>
    /\ shots = <<>>
    /\ written = {}
    /\ jsonOpens = 0
    /\ jsonFile = <<>>
    /\ gotoCalls = 0
    /\ closeCalls = 0
    /\ opAfterClose = FALSE
    /\ viewAttempts = <<>>
    /\ clicksOK = 0
    /\ visibleSel = {}
    /\ clickCalls = <<>>
    /\ clickedSel = <<>>
    /\ triedAfterClick = FALSE
    /\ selRaised = FALSE
    /\ viewWaitOK = FALSE
    /\ evaluated = <<>>
    /\ outerCaught = <<>>

\* line 12: the console listener, run while a call into the page is pending
ConsoleListener ==
    /\ pc \in PageSteps
    /\ closeCalls = 0
    /\ Len(console_messages) < MaxMsgs
    /\ console_messages' =
          Append(console_messages, FormatMsg(ConsoleMsg(Len(console_messages) + 1)))
    /\ UNCHANGED <<pc, view, sel, clicked, ui_analysis, exc, stdout, shots,
                   written, jsonOpens, jsonFile, gotoCalls, closeCalls,
                   opAfterClose, viewAttempts, clicksOK,
                   visibleSel, clickCalls, clickedSel, triedAfterClick,
                   selRaised, viewWaitOK, evaluated, outerCaught>>

\* lines 15-16: page.goto
Goto ==
    /\ pc = "goto"
    /\ gotoCalls' = gotoCalls + 1
    /\ PageOp
    /\ stdout' = Append(stdout, Line("navigating", 0, <<>>))
    /\ \/ pc' = "wait_initial" /\ exc' = exc
       \/ Raise
    /\ UNCHANGED <<view, sel, clicked, console_messages, ui_analysis, shots,
                   written, jsonOpens, jsonFile, closeCalls, viewAttempts,
                   clicksOK, visibleSel, clickCalls, clickedSel,
                   triedAfterClick, selRaised, viewWaitOK, evaluated,
                   outerCaught>>

\* line 19: page.wait_for_timeout
WaitInitial ==
    /\ pc = "wait_initial"
    /\ PageOp
    /\ \/ pc' = "shot_main" /\ exc' = exc
       \/ Raise
    /\ UNCHANGED <<view, sel, clicked, console_messages, ui_analysis, stdout,
                   shots, written, jsonOpens, jsonFile, gotoCalls, closeCalls,
                   viewAttempts, clicksOK, visibleSel, clickCalls,
                   clickedSel, triedAfterClick, selRaised, viewWaitOK,
                   evaluated, outerCaught>>

\* lines 22-23: the screenshot of the main view
ShotMain ==
    /\ pc = "shot_main"
    /\ PageOp
    /\ stdout' = Append(stdout, Line("capturing_main", 0, <<>>))
    /\ shots' = Append(shots, MainPath)
    /\ \/ pc' = "enum_nav" /\ exc' = exc /\ written' = written \cup {MainPath}
       \/ Raise /\ written' = written
    /\ UNCHANGED <<view, sel, clicked, console_messages, ui_analysis,
                   jsonOpens, jsonFile, gotoCalls, closeCalls, viewAttempts,
                   clicksOK, visibleSel, clickCalls, clickedSel,
                   triedAfterClick, selRaised, viewWaitOK, evaluated,
                   outerCaught>>

\* lines 26-34: enumerate the navigation elements
EnumNav ==
    /\ pc = "enum_nav"
    /\ PageOp
    /\ \/ /\ pc' = "for_view"
          /\ exc' = exc
          /\ stdout' = stdout \o <<Line("analyzing", 0, <<>>),
                                   Line("found_nav", 0, <<>>)>>
       \/ /\ Raise
          /\ stdout' = Append(stdout, Line("analyzing", 0, <<>>))
    /\ UNCHANGED <<view, sel, clicked, console_messages, ui_analysis, shots,
                   written, jsonOpens, jsonFile, gotoCalls, closeCalls,
                   viewAttempts, clicksOK, visibleSel, clickCalls,
                   clickedSel, triedAfterClick, selRaised, viewWaitOK,
                   evaluated, outerCaught>>

\* lines 36-49: the header of the view loop, and the start of an iteration
ForView ==
    /\ pc = "for_view"
    /\ pc' = ForViewNext(view)
    /\ IF pc' = "ui_init"
       THEN UNCHANGED <<view, viewAttempts, stdout, clicked>>
       ELSE /\ view' = view + 1
            /\ viewAttempts' = Append(viewAttempts, view')
            /\ stdout' = Append(stdout, Line("attempting", view', <<>>))
            /\ clicked' = FALSE
    /\ sel' = 0
    /\ visibleSel' = {}
    /\ clickCalls' = <<>>
    /\ clickedSel' = <<>>
    /\ triedAfterClick' = FALSE
    /\ selRaised' = FALSE
    /\ viewWaitOK' = FALSE
    /\ UNCHANGED <<console_messages, ui_analysis, exc, shots, written,
                   jsonOpens, jsonFile, gotoCalls, closeCalls, opAfterClose,
                   clicksOK, evaluated, outerCaught>>

\* line 50: the header of the selector loop
ForSelector ==
    /\ pc = "for_selector"
    /\ pc' = ForSelectorNext(sel, Len(selectors(views[view])))
    /\ IF pc' = "is_visible"
       THEN /\ sel' = sel + 1
            /\ triedAfterClick' = (triedAfterClick \/ clickedSel # <<>>)
       ELSE UNCHANGED <<sel, triedAfterClick>>
    /\ UNCHANGED <<view, clicked, console_messages, ui_analysis, exc, stdout,
                   shots, written, jsonOpens, jsonFile, gotoCalls, closeCalls,
                   opAfterClose, viewAttempts, clicksOK, visibleSel,
                   clickCalls, clickedSel, selRaised, viewWaitOK, evaluated,
                   outerCaught>>

\* lines 51-53, 58-59: locate the selector's first match and ask is_visible()
IsVisible ==
    /\ pc = "is_visible"
    /\ PageOp
    /\ \/ /\ pc' = "click"
          /\ visibleSel' = visibleSel \cup {sel}
          /\ selRaised' = selRaised
       \/ /\ pc' = "for_selector"
          /\ UNCHANGED <<visibleSel, selRaised>>
       \/ /\ pc' = Handler(pc)
          /\ selRaised' = TRUE
          /\ visibleSel' = visibleSel
    /\ UNCHANGED <<view, sel, clicked, console_messages, ui_analysis, exc,
                   stdout, shots, written, jsonOpens, jsonFile, gotoCalls,
                   closeCalls, viewAttempts, clicksOK, clickCalls,
                   clickedSel, triedAfterClick, viewWaitOK, evaluated,
                   outerCaught>>

\* lines 54-59: element.click()
Click ==
    /\ pc = "click"
    /\ PageOp
    /\ clickCalls' = Append(clickCalls, sel)
    /\ \E returned \in BOOLEAN :
          /\ pc' = AfterClick(returned)
          /\ IF returned
             THEN /\ clicked' = TRUE
                  /\ clickedSel' = Append(clickedSel, sel)
                  /\ clicksOK' = clicksOK + 1
                  /\ stdout' = Append(stdout, Line("clicked", view, <<>>))
                  /\ selRaised' = selRaised
             ELSE /\ selRaised' = TRUE
                  /\ UNCHANGED <<clicked, clickedSel, clicksOK, stdout>>
    /\ UNCHANGED <<view, sel, console_messages, ui_analysis, exc, shots,
                   written, jsonOpens, jsonFile, gotoCalls, closeCalls,
                   viewAttempts, visibleSel, triedAfterClick,
                   viewWaitOK, evaluated, outerCaught>>

\* lines 61, 69-70: if clicked ... else "Could not find"
IfClickedStep ==
    /\ pc = "if_clicked"
    /\ pc' = IfClicked(clicked)
    /\ stdout' = IF clicked THEN stdout
                 ELSE Append(stdout, Line("could_not_find", view, <<>>))
    /\ UNCHANGED <<view, sel, clicked, console_messages, ui_analysis, exc,
                   shots, written, jsonOpens, jsonFile, gotoCalls, closeCalls,
                   opAfterClose, viewAttempts, clicksOK,
                   visibleSel, clickCalls, clickedSel, triedAfterClick,
                   selRaised, viewWaitOK, evaluated, outerCaught>>

\* line 63: wait for the view to load
ViewWait ==
    /\ pc = "view_wait"
    /\ PageOp
    /\ \/ pc' = "view_shot" /\ exc' = exc /\ viewWaitOK' = TRUE
       \/ Raise /\ viewWaitOK' = viewWaitOK
    /\ UNCHANGED <<view, sel, clicked, console_messages, ui_analysis, stdout,
                   shots, written, jsonOpens, jsonFile, gotoCalls, closeCalls,
                   viewAttempts, clicksOK, visibleSel, clickCalls,
                   clickedSel, triedAfterClick, selRaised, evaluated,
                   outerCaught>>

\* lines 66-68: the screenshot of the view
ViewShot ==
    /\ pc = "view_shot"
    /\ PageOp
    /\ LET filename == Filename(views[view]) IN
          /\ shots' = Append(shots, filename)
          /\ \/ /\ pc' = "for_view"
                /\ exc' = exc
                /\ written' = written \cup {filename}
                /\ stdout' = Append(stdout, Line("saved", view, filename))
             \/ /\ Raise
                /\ UNCHANGED <<written, stdout>>
    /\ UNCHANGED <<view, sel, clicked, console_messages, ui_analysis,
                   jsonOpens, jsonFile, gotoCalls, closeCalls, viewAttempts,
                   clicksOK, visibleSel, clickCalls, clickedSel,
                   triedAfterClick, selRaised, viewWaitOK, evaluated,
                   outerCaught>>

\* lines 72-73: the handler of one view's iteration
ExceptView ==
    /\ pc = "except_view"
    /\ exc' = <<>>
    /\ stdout' = Append(stdout, Line("error_view", view, <<>>))
    /\ pc' = "for_view"
    /\ UNCHANGED <<view, sel, clicked, console_messages, ui_analysis, shots,
                   written, jsonOpens, jsonFile, gotoCalls, closeCalls,
                   opAfterClose, viewAttempts, clicksOK,
                   visibleSel, clickCalls, clickedSel, triedAfterClick,
                   selRaised, viewWaitOK, evaluated, outerCaught>>

\* lines 76-85: the dict literal, reading url, title and viewport
UiInit ==
    /\ pc = "ui_init"
    /\ PageOp
    /\ stdout' = Append(stdout, Line("analyzing_ui", 0, <<>>))
    /\ \/ pc' = "eval_body" /\ exc' = exc /\ ui_analysis' = InitialAnalysis
       \/ Raise /\ ui_analysis' = ui_analysis
    /\ UNCHANGED <<view, sel, clicked, console_messages, shots, written,
                   jsonOpens, jsonFile, gotoCalls, closeCalls, viewAttempts,
                   clicksOK, visibleSel, clickCalls, clickedSel,
                   triedAfterClick, selRaised, viewWaitOK, evaluated,
                   outerCaught>>

\* colors[:20]
Top20(colors) == Take(colors, ColorLimit)

\* the value assigned to ui_analysis[key] for an evaluation's result
Stored(key, r) == IF key = "colors" THEN Top20(r) ELSE r

\* one page.evaluate and the assignment of its result: the query's possible
\* results, the key assigned and the next statement
Evaluate(step, results, key, next) ==
    /\ pc = step
    /\ PageOp
    /\ \/ \E r \in results :
            /\ evaluated' = Append(evaluated, r)
            /\ ui_analysis' = SetKey(ui_analysis, key, Stored(key, r))
            /\ pc' = next
            /\ exc' = exc
       \/ Raise /\ UNCHANGED <<evaluated, ui_analysis>>
    /\ UNCHANGED <<view, sel, clicked, console_messages, stdout, shots,
                   written, jsonOpens, jsonFile, gotoCalls, closeCalls,
                   viewAttempts, clicksOK, visibleSel, clickCalls,
                   clickedSel, triedAfterClick, selRaised, viewWaitOK,
                   outerCaught>>

\* lines 90-100
EvalBody == Evaluate("eval_body", {BodyStyles}, "body_styles", "eval_colors")

\* lines 103-114
EvalColors == Evaluate("eval_colors", ColorResults, "colors", "eval_typography")

\* lines 117-133
EvalTypography == Evaluate("eval_typography", {Typography}, "typography", "eval_layout")

\* lines 136-150
EvalLayout == Evaluate("eval_layout", LayoutResults, "layout_info", "json_write")

\* lines 152-153: the handler of the style introspection
ExceptStyle ==
    /\ pc = "except_style"
    /\ exc' = <<>>
    /\ stdout' = Append(stdout, Line("error_styles", 0, <<>>))
    /\ pc' = "json_write"
    /\ UNCHANGED <<view, sel, clicked, console_messages, ui_analysis, shots,
                   written, jsonOpens, jsonFile, gotoCalls, closeCalls,
                   opAfterClose, viewAttempts, clicksOK,
                   visibleSel, clickCalls, clickedSel, triedAfterClick,
                   selRaised, viewWaitOK, evaluated, outerCaught>>

\* lines 156-159: open ui_analysis.json for writing and json.dump into it
JsonWrite ==
    /\ pc = "json_write"
    /\ \/ /\ Raise
          /\ UNCHANGED <<jsonOpens, jsonFile, stdout>>
       \/ /\ pc' = "print_console"
          /\ exc' = exc
          /\ jsonOpens' = jsonOpens + 1
          /\ jsonFile' = <<ui_analysis>>
          /\ stdout' = Append(stdout, Line("analysis_saved", 0, <<>>))
    /\ UNCHANGED <<view, sel, clicked, console_messages, ui_analysis, shots,
                   written, gotoCalls, closeCalls, opAfterClose, viewAttempts,
                   clicksOK, visibleSel, clickCalls, clickedSel,
                   triedAfterClick, selRaised, viewWaitOK, evaluated,
                   outerCaught>>

\* the lines the print loop writes for a list of messages
ConsoleLines(msgs) ==
    IF msgs = <<>> THEN <<>>
    ELSE <<Line("console_header", 0, <<>>)>>
            \o [i \in 1..Len(msgs) |-> Line("console", 0, <<"  ">> \o msgs[i])]

\* the statement after the console messages are printed
AfterPrint == "finally"

\* lines 162-165: print the console messages, if any
PrintConsole ==
    /\ pc = "print_console"
    /\ stdout' = stdout \o ConsoleLines(console_messages)
    /\ pc' = AfterPrint
    /\ UNCHANGED <<view, sel, clicked, console_messages, ui_analysis, exc,
                   shots, written, jsonOpens, jsonFile, gotoCalls, closeCalls,
                   opAfterClose, viewAttempts, clicksOK,
                   visibleSel, clickCalls, clickedSel, triedAfterClick,
                   selRaised, viewWaitOK, evaluated, outerCaught>>

\* lines 167-170: the outer handler and its error screenshot
ExceptOuter ==
    /\ pc = "except_outer"
    /\ PageOp
    /\ outerCaught' = Append(outerCaught, Head(exc))
    /\ stdout' = Append(stdout, Line("error_automation", 0, <<>>))
    /\ shots' = Append(shots, ErrorPath)
    /\ \/ /\ pc' = "finally"
          /\ exc' = <<>>
          /\ written' = written \cup {ErrorPath}
       \/ /\ Raise
          /\ written' = written
    /\ UNCHANGED <<view, sel, clicked, console_messages, ui_analysis,
                   jsonOpens, jsonFile, gotoCalls, closeCalls, viewAttempts,
                   clicksOK, visibleSel, clickCalls, clickedSel,
                   triedAfterClick, selRaised, viewWaitOK, evaluated>>

\* lines 172-174: the finally block; an exception in flight goes on to the
\* caller after it, as the context of the block's own exception if it raises
Finally ==
    /\ pc = "finally"
    /\ closeCalls' = closeCalls + 1
    /\ \/ /\ pc' = "done"
          /\ exc' = exc
          /\ stdout' = Append(stdout, Line("browser_closed", 0, <<>>))
       \/ /\ Raise
          /\ stdout' = stdout
    /\ UNCHANGED <<view, sel, clicked, console_messages, ui_analysis, shots,
                   written, jsonOpens, jsonFile, gotoCalls, opAfterClose,
                   viewAttempts, clicksOK, visibleSel, clickCalls,
                   clickedSel, triedAfterClick, selRaised, viewWaitOK,
                   evaluated, outerCaught>>

\* the statements of capture_dashboard_screenshots
Step ==
    \/ Goto \/ WaitInitial \/ ShotMain \/ EnumNav
    \/ ForView \/ ForSelector \/ IsVisible \/ Click \/ IfClickedStep
    \/ ViewWait \/ ViewShot \/ ExceptView
    \/ UiInit \/ EvalBody \/ EvalColors \/ EvalTypography \/ EvalLayout
    \/ ExceptStyle \/ JsonWrite \/ PrintConsole \/ ExceptOuter \/ Finally

Next == Step \/ ConsoleListener

Spec == Init /\ [][Next]_vars

\* every call into the browser returns or raises: the procedure takes its
\* next statement
FairSpec == Spec /\ WF_vars(Step)

-----------------------------------------------------------------------------
(* Vocabulary of the properties *)

Range(s) == {s[i] : i \in 1..Len(s)}

\* the statements outside the per-view and the style-introspection handlers
OuterSteps == {"goto", "wait_initial", "shot_main", "enum_nav", "ui_init", "json_write"}

\* the statements inside the per-view handler
ViewSteps == {"is_visible", "click", "view_wait", "view_shot"}

\* the style-introspection evaluations
StyleSteps == {"eval_body", "eval_colors", "eval_typography", "eval_layout"}

\* the statements of the view loop
LoopPcs == {"for_view", "for_selector", "is_visible", "click", "if_clicked",
            "view_wait", "view_shot", "except_view"}

\* the statements that follow the view loop in the try body
AnalysisPcs == {"ui_init", "eval_body", "eval_colors", "eval_typography",
                "eval_layout", "except_style", "json_write", "print_console"}

AllViews == [i \in 1..Len(views) |-> i]

\* the lines printed about view v, by kind
ViewLines(v) ==
    LET about(l) == l.view = v
        ls == SelectSeq(stdout, about)
    IN [i \in 1..Len(ls) |-> ls[i].kind]

\* the kinds of all lines printed
Kinds == {stdout[i].kind : i \in 1..Len(stdout)}

\* the console messages printed, in order
PrintedMsgs ==
    LET console(l) == l.kind = "console"
        ls == SelectSeq(stdout, console)
    IN [i \in 1..Len(ls) |-> Tail(ls[i].text)]

\* the iteration of the current view is over
ViewOver == pc = "for_view" /\ view >= 1

-----------------------------------------------------------------------------
\* C1: browser.close() is called exactly once in every run, whichever step
\* raises (the error screenshot in the outer handler included), and no page
\* operation is issued after it.
C1_GuaranteedCleanup ==
    /\ closeCalls <= 1
    /\ pc = "done" => closeCalls = 1
    /\ closeCalls = 1 => pc = "done"
    /\ ~opAfterClose

\* a run in which the error screenshot itself raised, and the browser was closed
C1_Witness ==
    /\ pc = "done"
    /\ closeCalls = 1
    /\ "except_outer" \in Range(exc)

\* C10: every run reaches the browser-closed state, after at most 4 view
\* attempts, at most 5 selector attempts in each of them (so at most 20 in
\* all) and at most 4 clicks that returned.
C10_Termination ==
    /\ <>(pc = "done" /\ closeCalls = 1)
    /\ [](/\ Len(viewAttempts) <= 4
          /\ \A i, j \in 1..Len(viewAttempts) :
                i # j => viewAttempts[i] # viewAttempts[j]
          /\ sel <= 5
          /\ Len(viewAttempts) * Len(selectors(views[1])) <= 20
          /\ clicksOK <= 4
          /\ clicksOK <= Len(viewAttempts))

\* a finished run that attempted four views, tried all five selectors of the
\* last one and clicked in four of them
C10_Witness ==
    /\ pc = "done"
    /\ Len(viewAttempts) = 4
    /\ clicksOK = 4

-----------------------------------------------------------------------------
\* the smallest element of a non-empty set of numbers
Min(S) == CHOOSE x \in S : \A y \in S : x <= y

\* the entries of s are strictly increasing
Increasing(s) == \A i, j \in 1..Len(s) : i < j => s[i] < s[j]

\* C2, as claimed: in each view the element clicked is the one of the first
\* selector, in the listed order, whose first match is visible; no selector
\* is tried after a click, and at most one element is clicked per view.
C2_FirstVisibleClicked ==
    /\ Len(clickedSel) <= 1
    /\ clickedSel # <<>> => clickedSel[1] = Min(visibleSel)
    /\ ~triedAfterClick

\* C2, amended: the selectors of a view are tried in the listed order;
\* click() is called on each one whose first match is visible until a click
\* returns; the click that returns is the one of the first selector whose
\* first match is visible and whose click() does not raise; once a click has
\* returned no later selector is tried, so at most one click returns per view.
C2_FirstClickableClicked ==
    /\ sel <= Len(selectors(views[IF view = 0 THEN 1 ELSE view]))
    /\ visibleSel \subseteq 1..sel
    /\ Increasing(clickCalls)
    /\ Range(clickCalls) = visibleSel \ (IF pc = "click" THEN {sel} ELSE {})
    /\ Len(clickedSel) <= 1
    /\ clickedSel # <<>> =>
          /\ clickedSel[1] = clickCalls[Len(clickCalls)]
          /\ clickedSel[1] = sel
          /\ clicked
    /\ pc \in LoopPcs => (clicked <=> clickedSel # <<>>)
    /\ ~triedAfterClick

\* the click on the first visible selector raised and the third selector's
\* click returned
C2_Witness ==
    /\ pc = "if_clicked"
    /\ clickCalls = <<1, 3>>
    /\ clickedSel = <<3>>

\* the screenshot path of each view, by position
ViewPath == [i \in 1..Len(views) |-> Filename(views[i])]

\* the current view's iteration raised after the click
ViewRaisedLate ==
    /\ clicked
    /\ \/ ~viewWaitOK
       \/ ViewPath[view] \in Range(shots) \ written

\* C3, as claimed: after the enumeration the four views are attempted in
\* order, once each, and an exception raised while selecting, clicking,
\* waiting for or screenshotting a view is caught and logged, and stops
\* neither the remaining views nor the analysis.
C3_CaughtAndLogged ==
    /\ pc \in AnalysisPcs => viewAttempts = AllViews
    /\ Range(outerCaught) \cap ViewSteps = {}
    /\ ViewOver /\ (selRaised \/ ViewRaisedLate) => "error_view" \in Range(ViewLines(view))

\* a step taken inside the view loop stays in it, or leaves it for the
\* analysis once the last view is over
C3_LoopStep ==
    /\ pc \in LoopPcs => (pc' \in LoopPcs \/ pc' = "ui_init")
    /\ (pc = "for_view" /\ pc' = "ui_init") => view = Len(views)

\* C3, amended: the four views are attempted in order, once each; an
\* exception raised while waiting for or screenshotting a view is caught and
\* logged, one raised while selecting or clicking is caught without a log
\* line and the next selector is tried; neither stops the remaining views
\* nor the analysis, and neither reaches the outer handler.
C3_ViewIsolation ==
    /\ [](/\ viewAttempts = SubSeq(AllViews, 1, view)
          /\ pc \in AnalysisPcs => viewAttempts = AllViews
          /\ Range(outerCaught) \cap ViewSteps = {}
          /\ exc # <<>> /\ Head(exc) \in ViewSteps => pc = "except_view"
          /\ ViewOver => (ViewRaisedLate <=> "error_view" \in Range(ViewLines(view)))
          /\ ViewOver /\ selRaised /\ ~ViewRaisedLate =>
                "error_view" \notin Range(ViewLines(view)))
    /\ [][C3_LoopStep]_vars

\* the analysis is reached after the wait of the first view raised and was
\* logged, and all four views were attempted
C3_Witness ==
    /\ pc = "ui_init"
    /\ viewAttempts = AllViews
    /\ ViewLines(1) = <<"attempting", "clicked", "error_view">>
    /\ "saved" \in Range(ViewLines(4))

\* page.goto raised in this run
GotoFailed == "goto" \in Range(exc) \cup Range(outerCaught)

\* C4: page.goto is called at most once; when it raises no view is attempted,
\* no click is made, neither the main screenshot nor ui_analysis.json is
\* written, and the run goes to the outer handler and then to the close.
C4_NoRetry ==
    /\ gotoCalls <= 1
    /\ GotoFailed =>
          /\ gotoCalls = 1
          /\ pc \in {"except_outer", "finally", "done"}
          /\ viewAttempts = <<>>
          /\ clickCalls = <<>> /\ clicksOK = 0
          /\ MainPath \notin Range(shots)
          /\ jsonOpens = 0 /\ jsonFile = <<>>
          /\ Range(shots) \subseteq {ErrorPath}
          /\ pc \in {"finally", "done"} => outerCaught = <<"goto">>
          /\ pc = "done" => closeCalls = 1

\* a finished run whose page.goto raised
C4_Witness ==
    /\ pc = "done"
    /\ outerCaught = <<"goto">>
    /\ closeCalls = 1
    /\ shots = <<ErrorPath>>

\* C5: every console message the listener appended is printed, in the order
\* received, before the browser is closed.
C5_ConsoleLogged == closeCalls > 0 => PrintedMsgs = console_messages

\* the keys the style introspection assigns, in the order it assigns them
StyleKeys == <<"body_styles", "colors", "typography", "layout_info">>

\* ui_analysis after the evaluations that returned: the keys assigned so far
\* hold what was evaluated (the first 20 colours), the others their defaults
AnalysisAfter(results) ==
    [k \in DOMAIN InitialAnalysis \cup (IF Len(results) >= 1 THEN {"body_styles"} ELSE {}) |->
        CASE k = "body_styles" -> results[1]
          [] k = "colors" /\ Len(results) >= 2 ->
                SubSeq(results[2], 1, IF Len(results[2]) > 20 THEN 20 ELSE Len(results[2]))
          [] k = "typography" /\ Len(results) >= 3 -> results[3]
          [] k = "layout_info" /\ Len(results) >= 4 -> results[4]
          [] OTHER -> InitialAnalysis[k]]

\* a style-introspection evaluation raised in this run
StyleFailed == (exc # <<>> /\ Head(exc) \in StyleSteps) \/ "error_styles" \in Kinds

\* C6: ui_analysis.json is written at most once, only after all four views
\* were attempted, and also when a style evaluation raised: the write is then
\* the next statement after the handler, the keys assigned before the failure
\* hold the evaluated values and the others their defaults.
C6_JsonWritten ==
    /\ jsonOpens <= 1
    /\ jsonOpens = 1 => viewAttempts = AllViews /\ Len(jsonFile) = 1
    /\ jsonOpens = 0 => jsonFile = <<>>
    /\ Range(outerCaught) \cap StyleSteps = {}
    /\ StyleFailed =>
          \/ pc \in {"except_style", "json_write"}
          \/ jsonOpens = 1
          \/ "json_write" \in Range(exc) \cup Range(outerCaught)
    /\ StyleFailed => Len(evaluated) < Len(StyleKeys)
    /\ pc \in {"json_write", "print_console"} => ui_analysis = AnalysisAfter(evaluated)
    /\ jsonFile # <<>> => jsonFile[1] = AnalysisAfter(evaluated)

\* the file was written after the typography evaluation raised: 21 colours
\* were evaluated and 20 are in the file, typography and layout_info are the
\* defaults
C6_Witness ==
    /\ jsonFile # <<>>
    /\ "error_styles" \in Kinds
    /\ Len(evaluated) = 2
    /\ Len(evaluated[2]) > ColorLimit
    /\ Len(jsonFile[1]["colors"]) = ColorLimit
    /\ jsonFile[1]["typography"] = EmptyList
    /\ jsonFile[1]["layout_info"] = EmptyDict

\* the screenshot paths of the first n views
ViewPaths(n) == {ViewPath[i] : i \in 1..n}

\* C7: a view's screenshot call is made if and only if a click returned for
\* that view and the wait after it did not raise; it is made after the click
\* and the wait and before any selector of the next view is tried.  A view
\* without a visible, clickable element gets no screenshot and, after the
\* line announcing the attempt, only the "Could not find" line.
C7_ShotIffClicked ==
    /\ ViewOver =>
          (ViewPath[view] \in Range(shots) <=> (clickedSel # <<>> /\ viewWaitOK))
    /\ pc = "view_shot" => clickedSel # <<>> /\ viewWaitOK
    /\ pc = "view_wait" => clickedSel # <<>>
    /\ pc \in {"for_selector", "is_visible", "click", "if_clicked", "view_wait", "view_shot"}
          => ViewPath[view] \notin Range(shots)
    /\ Range(shots) \cap ViewPaths(Len(views)) \subseteq ViewPaths(view)
    /\ ViewOver /\ clickedSel = <<>> =>
          /\ ViewPath[view] \notin Range(shots)
          /\ ViewLines(view) = <<"attempting", "could_not_find">>
    /\ ViewOver /\ clickedSel # <<>> => "could_not_find" \notin Range(ViewLines(view))

\* the second view was clicked and screenshot after the first one had no
\* clickable element
C7_Witness ==
    /\ ViewOver
    /\ view = 2
    /\ ViewLines(1) = <<"attempting", "could_not_find">>
    /\ ViewLines(2) = <<"attempting", "clicked", "saved">>
    /\ shots = <<MainPath, ViewPath[2]>>

\* a failure inside the per-view loop or the style introspection was logged
InnerFailure == {"error_view", "error_styles"} \cap Kinds # {}

\* C8: the error screenshot is attempted at most once, and exactly when an
\* exception reaches the outer handler, which only the steps outside the
\* per-view and style handlers cause; if the error screenshot raises, the run
\* ends with that exception in flight after the browser was closed.
C8_ErrorScreenshot ==
    /\ ShotCount(ErrorPath) <= 1
    /\ ShotCount(ErrorPath) = Len(outerCaught)
    /\ Range(outerCaught) \subseteq OuterSteps
    /\ exc # <<>> /\ Head(exc) \in OuterSteps => pc = "except_outer"
    /\ exc # <<>> /\ Head(exc) \in ViewSteps \cup StyleSteps =>
          pc \in {"except_view", "except_style"}
    /\ pc = "except_outer" => exc # <<>> /\ Head(exc) \in OuterSteps /\ outerCaught = <<>>
    /\ pc = "done" /\ ErrorPath \in Range(shots) \ written =>
          /\ "except_outer" \in Range(exc)
          /\ closeCalls = 1
    /\ pc = "done" /\ "except_outer" \notin Range(exc) => Range(exc) \subseteq {"finally"}

\* the JSON write raised after an inner failure had been logged, the error
\* screenshot raised too, and the run ended with the browser closed
C8_Witness ==
    /\ pc = "done"
    /\ InnerFailure
    /\ outerCaught = <<"json_write">>
    /\ exc = <<"except_outer", "json_write">>
    /\ closeCalls = 1

\* the file names of the six screenshots
ExpectedNames ==
    << <<"0","1","_","t","e","r","m","i","n","a","l","_","v","i","e","w",".","p","n","g">>,
       <<"0","2","_","s","w","a","r","m","_","v","i","e","w",".","p","n","g">>,
       <<"0","3","_","m","l","_","c","o","r","t","e","x","_","v","i","e","w",".","p","n","g">>,
       <<"0","4","_","b","a","c","k","t","e","s","t","_","v","i","e","w",".","p","n","g">>,
       <<"0","5","_","j","o","u","r","n","a","l","_","v","i","e","w",".","p","n","g">>,
       <<"e","r","r","o","r","_","s","c","r","e","e","n","s","h","o","t",".","p","n","g">> >>

\* C9: the screenshot paths are the six distinct names 01_terminal_view ..
\* 05_journal_view and error_screenshot, the prefix of a view's screenshot is
\* its position in the view list plus 2, each path is the target of at most
\* one screenshot call, and a run makes at most 6 such calls.
C9_DistinctPaths ==
    /\ Len(shots) <= 6
    /\ \A i, j \in 1..Len(shots) : i # j => shots[i] # shots[j]
    /\ \A i \in 1..Len(shots) :
          \E k \in 1..Len(ExpectedNames) : shots[i] = ScreenshotDir \o ExpectedNames[k]
    /\ pc = "view_shot" =>
          /\ ViewPath[view] = ScreenshotDir \o ExpectedNames[view + 1]
          /\ SubSeq(ViewPath[view], 2, 3) = <<"0", Digits[(view - 1) + 2 + 1]>>
    /\ \A i \in 1..Len(shots) : shots[i] \in ViewPaths(Len(views)) =>
          \E v \in 1..Len(views) :
             /\ shots[i] = ScreenshotDir \o ExpectedNames[v + 1]
             /\ shots[i] = ViewPath[v]

\* a run that made all six screenshot calls
C9_Witness ==
    /\ Len(shots) = 6
    /\ shots[1] = MainPath
    /\ shots[6] = ErrorPath

=============================================================================
